---- MODULE Spec2Model ----
(***************************************************************************)
(* The chat view of src/app/page.tsx (component Home) as a state machine:  *)
(* the React state (messages, input, loading, sessionId), the browser's    *)
(* localStorage entry "chatSessionId", the fetch calls and the history     *)
(* query that are in flight, and the chat_messages table the history is    *)
(* read from.  Strings are sequences of one-character strings, so that     *)
(* trim, concatenation and JSON.stringify are computed, not assumed.       *)
(***************************************************************************)
EXTENDS Integers, Sequences, FiniteSets, TLC

VARIABLES
    messages,      \* useState<Message[]>([])            page.tsx:28
    input,         \* useState("")                       page.tsx:29
    loading,       \* useState(false)                    page.tsx:30
    sessionId,     \* useState<string>("")               page.tsx:31
    localStorage,  \* localStorage["chatSessionId"], NoSession when the key is absent
    effectRan,     \* whether this mount's useEffect (page.tsx:35) has started
    histPending,   \* the history query awaited at page.tsx:50, or NoQuery
    inflight,      \* the fetch calls awaited at page.tsx:103, in issue order
    store,         \* rows of the chat_messages table, in created_at order
    lastOp         \* the handler that ran last, with its inputs (observation only)

vars == <<messages, input, loading, sessionId, localStorage, effectRan,
          histPending, inflight, store, lastOp>>

----------------------------------------------------------------------------
(* Bounds of the model *)

MaxMsgs == 3     \* a send is only explored while the list is shorter than this
MaxRows == 1     \* rows the chat backend writes to chat_messages
MaxSaved == 2    \* rows of chat_messages in the runs that are about the store
MaxTextLen == 4  \* length of the texts given to formatText

(* Input alphabets *)

Times      == {1, 2}                 \* Date.now(), wall-clock milliseconds
Rands      == {1}                    \* Math.random().toString(36).substr(2, 9)
TypedTexts == {<<>>, <<" ">>, <<" ", "a">>}
Whitespace == {" "}

----------------------------------------------------------------------------
(* Strings *)

ErrorPrefix  == <<"E", "r", "r", "o", "r", ":", " ">>
UnknownError == <<"U", "n", "k", "n", "o", "w", "n", " ", "e", "r", "r", "o", "r">>

RECURSIVE TrimStart(_)
TrimStart(s) ==
    IF s # <<>> /\ Head(s) \in Whitespace THEN TrimStart(Tail(s)) ELSE s

RECURSIVE TrimEnd(_)
TrimEnd(s) ==
    IF s # <<>> /\ s[Len(s)] \in Whitespace
    THEN TrimEnd(SubSeq(s, 1, Len(s) - 1)) ELSE s

\* String.prototype.trim
Trim(s) == TrimEnd(TrimStart(s))

\* an optional value: a property that may be missing from an object
Some(v) == [has |-> TRUE, val |-> v]
None    == [has |-> FALSE, val |-> <<>>]

\* JavaScript truthiness of an optional string: present and not ""
Truthy(o) == o.has /\ o.val # <<>>

Quote(s) == <<"\"">> \o s \o <<"\"">>

RECURSIVE JoinComma(_)
JoinComma(parts) ==
    IF parts = <<>> THEN <<>>
    ELSE IF Len(parts) = 1 THEN parts[1]
    ELSE parts[1] \o <<",">> \o JoinComma(Tail(parts))

QuoteAll(ss) == [i \in 1..Len(ss) |-> Quote(ss[i])]

\* JSON.stringify of a response body, keys in the order reply, message, chips
Stringify(body) ==
    LET r == IF body.reply.has
             THEN << <<"\"", "r", "e", "p", "l", "y", "\"", ":">> \o Quote(body.reply.val) >>
             ELSE <<>>
        m == IF body.message.has
             THEN << <<"\"", "m", "e", "s", "s", "a", "g", "e", "\"", ":">> \o Quote(body.message.val) >>
             ELSE <<>>
        c == IF body.chips.has
             THEN << <<"\"", "c", "h", "i", "p", "s", "\"", ":", "[">>
                     \o JoinComma(QuoteAll(body.chips.val)) \o <<"]">> >>
             ELSE <<>>
    IN <<"{">> \o JoinComma(r \o m \o c) \o <<"}">>


----------------------------------------------------------------------------
(* formatText: text.split on the two emphasis patterns, then the map over the parts *)

LineTerminators == {"\n"}          \* what "." does not match
FormatChars     == {"*", "a", "\n"}

MinOf(S) == CHOOSE j \in S : \A k \in S : j <= k

\* where a match of \*\*.*?\*\* that starts at i ends, 0 when there is none
DoubleStarEnd(s, i) ==
    IF i + 1 <= Len(s) /\ s[i] = "*" /\ s[i + 1] = "*"
    THEN LET ends == {j \in (i + 2)..(Len(s) - 1) :
                        /\ s[j] = "*" /\ s[j + 1] = "*"
                        /\ \A k \in (i + 2)..(j - 1) : s[k] \notin LineTerminators}
         IN IF ends = {} THEN 0 ELSE MinOf(ends) + 1
    ELSE 0

\* where a match of \*.*?\* that starts at i ends, 0 when there is none
SingleStarEnd(s, i) ==
    IF s[i] = "*"
    THEN LET ends == {j \in (i + 1)..Len(s) :
                        /\ s[j] = "*"
                        /\ \A k \in (i + 1)..(j - 1) : s[k] \notin LineTerminators}
         IN IF ends = {} THEN 0 ELSE MinOf(ends)
    ELSE 0

\* the alternation: the first alternative that matches at i
MatchEnd(s, i) ==
    IF DoubleStarEnd(s, i) # 0 THEN DoubleStarEnd(s, i) ELSE SingleStarEnd(s, i)

\* split with a capturing group: the text before each match, the match, and at
\* the end the text after the last match; p is where the text not yet given
\* out starts, i the position the next match is looked for at
RECURSIVE SplitFrom(_, _, _)
SplitFrom(s, p, i) ==
    IF i > Len(s) THEN << SubSeq(s, p, Len(s)) >>
    ELSE IF MatchEnd(s, i) # 0
         THEN << SubSeq(s, p, i - 1), SubSeq(s, i, MatchEnd(s, i)) >>
                 \o SplitFrom(s, MatchEnd(s, i) + 1, MatchEnd(s, i) + 1)
         ELSE SplitFrom(s, p, i + 1)

StartsWith(s, pre) == Len(pre) <= Len(s) /\ SubSeq(s, 1, Len(pre)) = pre
EndsWith(s, suf)   == Len(suf) <= Len(s) /\ SubSeq(s, Len(s) - Len(suf) + 1, Len(s)) = suf

\* part.slice(n, -n)
SliceBoth(s, n) == IF n + 1 <= Len(s) - n THEN SubSeq(s, n + 1, Len(s) - n) ELSE <<>>

\* the element formatText makes of one part: <strong> or the part itself
FormatPart(part) ==
    IF StartsWith(part, <<"*", "*">>) /\ EndsWith(part, <<"*", "*">>)
    THEN [strong |-> TRUE, text |-> SliceBoth(part, 2)]
    ELSE IF StartsWith(part, <<"*">>) /\ EndsWith(part, <<"*">>)
    THEN [strong |-> TRUE, text |-> SliceBoth(part, 1)]
    ELSE [strong |-> FALSE, text |-> part]

formatText(text) ==
    LET parts == SplitFrom(text, 1, 1)
    IN [i \in 1..Len(parts) |-> FormatPart(parts[i])]

----------------------------------------------------------------------------
(* Values *)

NoSession == <<>>     \* "" in sessionId, null from localStorage.getItem
NoQuery   == [active |-> FALSE, session_id |-> NoSession]

\* mutant: the random suffix is left out of the identifier
NewSessionIdNoSuffix(t, r) == <<t>>

\* `session_${Date.now()}_${Math.random().toString(36).substr(2, 9)}`
NewSessionId(t, r) == <<t, r>>

Roles == {"user", "bot"}

\* what a row of chat_messages may hold: the table is also written from outside
SessionIds     == {NewSessionId(t, r) : t \in Times, r \in Rands}
StoredRoles    == Roles \cup {"assistant"}
StoredContents == {<<"a">>, <<"b">>}
StoredRows     == [session_id : SessionIds, role : StoredRoles, content : StoredContents]

SeqsUpTo(S, n) == UNION {[1..k -> S] : k \in 0..n}

\* mutant: the user message carries the trimmed input
UserMessageTrimmed(text) == [text |-> Trim(text), sender |-> "user", chips |-> None]

\* a view Message; id and timestamp are display-only and are left out
UserMessage(text) == [text |-> text, sender |-> "user", chips |-> None]

\* what the backend call can come to
ReplyTexts   == {None, Some(<<>>), Some(<<"r">>)}
MessageTexts == {None, Some(<<>>), Some(<<"m">>)}
ChipLists    == {None, Some(<<>>), Some(<< <<"a">> >>)}
Bodies       == [reply : ReplyTexts, message : MessageTexts, chips : ChipLists]
StatusTexts  == {<<>>, <<"N">>}
ErrMessages  == {<<"x">>}

Outcomes ==
         [kind : {"ok"}, body : Bodies]            \* response.ok, an object body
    \cup [kind : {"notOk"}, statusText : StatusTexts]
    \cup [kind : {"okThrow"}, err : ErrMessages]   \* response.ok, json() or the body access throws an Error
    \cup [kind : {"throwError"}, err : ErrMessages] \* fetch rejects with an Error
    \cup [kind : {"throwOther"}]                   \* the thrown value is not an Error

\* one outcome of each kind, for the runs that are about the life cycle
SampleOutcomes ==
    { [kind |-> "ok", body |-> [reply |-> Some(<<"r">>), message |-> None,
                                chips |-> Some(<< <<"a">> >>)]],
      [kind |-> "notOk", statusText |-> <<"N">>],
      [kind |-> "okThrow", err |-> <<"x">>],
      [kind |-> "throwError", err |-> <<"x">>] }

----------------------------------------------------------------------------
(* Pure parts of the handlers *)

\* mutant: body.message is not consulted
ReplyTextNoMessage(body) ==
    IF Truthy(body.reply) THEN body.reply.val ELSE Stringify(body)

\* data.reply || data.message || JSON.stringify(data)
ReplyText(body) ==
    IF Truthy(body.reply) THEN body.reply.val
    ELSE IF Truthy(body.message) THEN body.message.val
    ELSE Stringify(body)

\* data.chips || []
ReplyChips(body) == IF body.chips.has THEN body.chips.val ELSE <<>>

\* mutant: the status text alone, without the "Error: " prefix
StatusErrorTextBare(statusText) == statusText

\* `Error: ${response.statusText}`
StatusErrorText(statusText) == ErrorPrefix \o statusText

\* `Error: ${error instanceof Error ? error.message : "Unknown error"}`
CaughtErrorText(o) ==
    ErrorPrefix \o (IF o.kind \in {"okThrow", "throwError"} THEN o.err ELSE UnknownError)

\* the bot Message handleSend appends when the backend call settles with o
BotMessage(o) ==
    IF o.kind = "ok"
    THEN [text |-> ReplyText(o.body), sender |-> "bot", chips |-> Some(ReplyChips(o.body))]
    ELSE IF o.kind = "notOk"
    THEN [text |-> StatusErrorText(o.statusText), sender |-> "bot", chips |-> None]
    ELSE [text |-> CaughtErrorText(o), sender |-> "bot", chips |-> None]

\* mutant: the input is tested without trim()
SendRejectedUntrimmed(in, sid) == in = <<>> \/ sid = NoSession

\* the early return of handleSend
SendRejected(in, sid) == Trim(in) = <<>> \/ sid = NoSession

\* mutant: the textarea is never disabled
TextareaAlwaysEnabled == TRUE

\* disabled={loading} on the textarea
TextareaEnabled == ~loading

\* disabled={loading || !input.trim()} on the send button
SendButtonEnabled == ~(loading \/ Trim(input) = <<>>)

\* mutant: a new identifier on every mount
ResolvedSessionAlwaysNew(saved, t, r) == NewSessionId(t, r)

\* the session id initializeSession resolves to, given the stored value
ResolvedSession(saved, t, r) ==
    IF saved = NoSession THEN NewSessionId(t, r) ELSE saved

\* rows of one session, in created_at order
RECURSIVE SelectRows(_, _)
SelectRows(rows, sid) ==
    IF rows = <<>> THEN <<>>
    ELSE IF Head(rows).session_id = sid
         THEN <<Head(rows)>> \o SelectRows(Tail(rows), sid)
         ELSE SelectRows(Tail(rows), sid)

\* mutant: only the role "bot" is mapped to the sender "bot"
LoadedMessagesBotOnly(data) ==
    [i \in 1..Len(data) |->
        [text |-> data[i].content,
         sender |-> IF data[i].role = "bot" THEN "bot" ELSE "user",
         chips |-> None]]

\* data.map(...) of initializeSession
LoadedMessages(data) ==
    [i \in 1..Len(data) |->
        [text |-> data[i].content,
         sender |-> IF data[i].role = "user" THEN "user" ELSE "bot",
         chips |-> None]]

\* the messages after the history query came back
MessagesAfterLoad(msgs, result, data) ==
    IF result = "data" /\ Len(data) > 0 THEN LoadedMessages(data) ELSE msgs

RemoveAt(s, i) == SubSeq(s, 1, i - 1) \o SubSeq(s, i + 1, Len(s))

\* what a gateway function hands to its caller: null, rows, or an exception
NullResult       == [threw |-> FALSE, isNull |-> TRUE, rows |-> <<>>]
RowsResult(rows) == [threw |-> FALSE, isNull |-> FALSE, rows |-> rows]
Thrown           == [threw |-> TRUE, isNull |-> TRUE, rows |-> <<>>]

\* mutant: getHistory without its try/catch
GetHistoryResultNoCatch(outcome, data) ==
    IF outcome = "error" THEN NullResult
    ELSE IF outcome = "throw" THEN Thrown
    ELSE RowsResult(data)

\* what getHistory returns: null on a query error or an exception, else data
GetHistoryResult(outcome, data) ==
    IF outcome = "error" THEN NullResult
    ELSE IF outcome = "throw" THEN NullResult
    ELSE RowsResult(data)

\* what saveMessage returns: null on an insert error or an exception, else the
\* data of the insert response, which is null when the store returns no rows
SaveMessageResult(outcome, data) ==
    IF outcome = "error" THEN NullResult
    ELSE IF outcome = "throw" THEN NullResult
    ELSE IF data.has THEN RowsResult(data.val) ELSE NullResult

\* mutant: clear-chat aborts the awaited fetch calls
InflightAbortedOnClear(reqs) == <<>>

\* the fetch calls still awaited after a confirmed clear-chat: nothing aborts them
InflightAfterClear(reqs) == reqs

\* mutant: clear-chat deletes the rows of the session it leaves
RECURSIVE StoreRowsDeletedOnClear(_, _)
StoreRowsDeletedOnClear(rows, sid) ==
    IF rows = <<>> THEN <<>>
    ELSE IF Head(rows).session_id = sid
         THEN StoreRowsDeletedOnClear(Tail(rows), sid)
         ELSE <<Head(rows)>> \o StoreRowsDeletedOnClear(Tail(rows), sid)

\* the table after a confirmed clear-chat of session sid: handleClearChat
\* issues no request to the store
StoreAfterClear(rows, sid) == rows

\* mutant: clear-chat sets the state and leaves the stored identifier
StoredKeptOnClear(id, old) == old

\* localStorage.setItem("chatSessionId", newSessionId) of handleClearChat
StoredAfterClear(id, old) == id

\* mutant: setLoading(false) on the success path only
LoadingResetOnSuccessOnly(o, cur) == IF o.kind = "ok" THEN FALSE ELSE cur

\* finally { setLoading(false) }
LoadingAfterSettle(o, cur) == FALSE

----------------------------------------------------------------------------
(* Initial state: the component as constructed by useState, first visit *)

Init ==
    /\ messages = <<>>
    /\ input = <<>>
    /\ loading = FALSE
    /\ sessionId = NoSession
    /\ localStorage = NoSession
    /\ effectRan = FALSE
    /\ histPending = NoQuery
    /\ inflight = <<>>
    /\ store = <<>>
    /\ lastOp = [op |-> "init"]

----------------------------------------------------------------------------
(* Actions *)

\* the mount effect up to its await: resolve or create the session id
initializeSession ==
    /\ ~effectRan
    /\ \E t \in Times, r \in Rands :
        LET saved == localStorage
            id    == ResolvedSession(saved, t, r)
        IN /\ localStorage' = (IF saved = NoSession THEN id ELSE localStorage)
           /\ sessionId' = id
           /\ histPending' = [active |-> TRUE, session_id |-> id]
           /\ lastOp' = [op |-> "initializeSession", created |-> (saved = NoSession)]
    /\ effectRan' = TRUE
    /\ UNCHANGED <<messages, input, loading, inflight, store>>

\* the history query of the mount effect comes back
HistoryLoaded ==
    /\ histPending.active
    /\ \E result \in {"data", "error", "throw"} :
        LET data == SelectRows(store, histPending.session_id)
        IN /\ messages' = MessagesAfterLoad(messages, result, data)
           /\ lastOp' = [op |-> "historyLoaded", result |-> result,
                         session_id |-> histPending.session_id, data |-> data]
    /\ histPending' = NoQuery
    /\ UNCHANGED <<input, loading, sessionId, localStorage, effectRan, inflight, store>>

\* onChange of the textarea
Type ==
    /\ TextareaEnabled
    /\ \E v \in TypedTexts : input' = v
    /\ lastOp' = [op |-> "type"]
    /\ UNCHANGED <<messages, loading, sessionId, localStorage, effectRan,
                   histPending, inflight, store>>

\* onClick of a suggestion chip: setInput(chip)
ChipClick ==
    /\ \E i \in 1..Len(messages) :
        /\ messages[i].chips.has
        /\ \E j \in 1..Len(messages[i].chips.val) : input' = messages[i].chips.val[j]
    /\ lastOp' = [op |-> "chip"]
    /\ UNCHANGED <<messages, loading, sessionId, localStorage, effectRan,
                   histPending, inflight, store>>

\* handleSend up to its await
handleSend ==
    IF SendRejected(input, sessionId)
    THEN /\ lastOp' = [op |-> "handleSend", accepted |-> FALSE]
         /\ UNCHANGED <<messages, input, loading, sessionId, localStorage, effectRan,
                        histPending, inflight, store>>
    ELSE /\ Len(messages) < MaxMsgs
         /\ messages' = Append(messages, UserMessage(input))
         /\ input' = <<>>
         /\ loading' = TRUE
         /\ inflight' = Append(inflight, [message |-> input, session_id |-> sessionId])
         /\ lastOp' = [op |-> "handleSend", accepted |-> TRUE]
         /\ UNCHANGED <<sessionId, localStorage, effectRan, histPending, store>>

\* Enter without Shift in the textarea
handleKeyPress ==
    /\ TextareaEnabled
    /\ handleSend

\* onClick of the send button
ClickSend ==
    /\ SendButtonEnabled
    /\ handleSend

\* the rest of handleSend: the awaited fetch settles, then finally
SettleWith(outcomes) ==
    \E i \in 1..Len(inflight), o \in outcomes :
        /\ messages' = Append(messages, BotMessage(o))
        /\ loading' = LoadingAfterSettle(o, loading)
        /\ inflight' = RemoveAt(inflight, i)
        /\ lastOp' = [op |-> "settle", req |-> inflight[i], outcome |-> o]
        /\ UNCHANGED <<input, sessionId, localStorage, effectRan, histPending, store>>

Settle == SettleWith(SampleOutcomes)

\* the same, over every response body of Bodies
SettleAny == SettleWith(Outcomes)

\* the Clear Chat button, with the answer given to confirm()
handleClearChat ==
    \E confirmed \in BOOLEAN :
        IF confirmed
        THEN \E t \in Times, r \in Rands :
                /\ messages' = <<>>
                /\ input' = <<>>
                /\ sessionId' = NewSessionId(t, r)
                /\ localStorage' = StoredAfterClear(NewSessionId(t, r), localStorage)
                /\ inflight' = InflightAfterClear(inflight)
                /\ store' = StoreAfterClear(store, sessionId)
                /\ lastOp' = [op |-> "handleClearChat", confirmed |-> TRUE, prev |-> sessionId,
                              t |-> t, r |-> r]
                /\ UNCHANGED <<loading, effectRan, histPending>>
        ELSE /\ lastOp' = [op |-> "handleClearChat", confirmed |-> FALSE, prev |-> sessionId]
             /\ UNCHANGED <<messages, input, loading, sessionId, localStorage, effectRan,
                            histPending, inflight, store>>

\* the page is loaded again: a new component instance, the old one's awaits are gone
Reload ==
    /\ effectRan
    /\ messages' = <<>>
    /\ input' = <<>>
    /\ loading' = FALSE
    /\ sessionId' = NoSession
    /\ effectRan' = FALSE
    /\ histPending' = NoQuery
    /\ inflight' = <<>>
    /\ lastOp' = [op |-> "reload"]
    /\ UNCHANGED <<localStorage, store>>

\* a row is inserted into chat_messages for a request being served: the user's
\* message, or the reply to it
InsertRow ==
    /\ Len(store) < MaxRows
    /\ \E i \in 1..Len(inflight), role \in Roles :
        store' = Append(store, [session_id |-> inflight[i].session_id,
                                role |-> role,
                                content |-> IF role = "user" THEN inflight[i].message
                                            ELSE <<"r">>])
    /\ lastOp' = [op |-> "insertRow"]
    /\ UNCHANGED <<messages, input, loading, sessionId, localStorage, effectRan,
                   histPending, inflight>>

Next ==
    \/ initializeSession
    \/ HistoryLoaded
    \/ Type
    \/ ChipClick
    \/ handleKeyPress
    \/ ClickSend
    \/ Settle
    \/ handleClearChat
    \/ Reload
    \/ InsertRow

Spec == Init /\ [][Next]_vars

\* the mount and its history load, over stored rows of every role and order,
\* for a first visit and for a visit with an identifier already stored
InitHistory ==
    /\ messages = <<>>
    /\ input = <<>>
    /\ loading = FALSE
    /\ sessionId = NoSession
    /\ localStorage \in {NoSession} \cup SessionIds
    /\ effectRan = FALSE
    /\ histPending = NoQuery
    /\ inflight = <<>>
    /\ store \in SeqsUpTo(StoredRows, MaxSaved)
    /\ lastOp = [op |-> "init"]

NextHistory ==
    \/ initializeSession
    \/ HistoryLoaded
    \/ Type
    \/ handleKeyPress
    \/ Reload

SpecHistory == InitHistory /\ [][NextHistory]_vars

\* getHistory(sessionId) of the gateway, called with any session
getHistory ==
    /\ \E sid \in SessionIds, outcome \in {"data", "error", "throw"} :
        LET data == SelectRows(store, sid)
        IN lastOp' = [op |-> "getHistory", session_id |-> sid, outcome |-> outcome,
                      data |-> data, result |-> GetHistoryResult(outcome, data)]
    /\ UNCHANGED <<messages, input, loading, sessionId, localStorage, effectRan,
                   histPending, inflight, store>>

\* saveMessage(sessionId, role, content) of the gateway; an insert that fails
\* with an exception may or may not have written its row
saveMessage ==
    /\ Len(store) < MaxSaved
    /\ \E sid \in SessionIds, role \in Roles, content \in StoredContents,
          outcome \in {"ok", "error", "throw"}, written \in BOOLEAN, returned \in BOOLEAN :
        LET row  == [session_id |-> sid, role |-> role, content |-> content]
            data == IF outcome = "ok" /\ returned THEN Some(<<row>>) ELSE None
        IN /\ outcome = "ok" => written
           /\ outcome = "error" => ~written
           /\ store' = (IF written THEN Append(store, row) ELSE store)
           /\ lastOp' = [op |-> "saveMessage", outcome |-> outcome, data |-> data,
                         result |-> SaveMessageResult(outcome, data)]
    /\ UNCHANGED <<messages, input, loading, sessionId, localStorage, effectRan,
                   histPending, inflight>>

\* the gateway functions alone, called in any order
NextGateway ==
    \/ getHistory
    \/ saveMessage

SpecGateway == Init /\ [][NextGateway]_vars

\* a message is rendered: formatText(msg.text)
Render ==
    /\ \E i \in 1..Len(messages) :
        lastOp' = [op |-> "render", text |-> messages[i].text,
                   segments |-> formatText(messages[i].text)]
    /\ UNCHANGED <<messages, input, loading, sessionId, localStorage, effectRan,
                   histPending, inflight, store>>

\* the view showing one bot message, over every text of FormatChars
InitFormat ==
    /\ messages \in {<< [text |-> t, sender |-> "bot", chips |-> None] >> :
                        t \in SeqsUpTo(FormatChars, MaxTextLen)}
    /\ input = <<>>
    /\ loading = FALSE
    /\ sessionId \in SessionIds
    /\ localStorage = sessionId
    /\ effectRan = TRUE
    /\ histPending = NoQuery
    /\ inflight = <<>>
    /\ store = <<>>
    /\ lastOp = [op |-> "init"]

NextFormat == Render

SpecFormat == InitFormat /\ [][NextFormat]_vars

\* the awaited promises settle; the user is never obliged to act
\* the send path alone, over every outcome of the backend call
NextReplies ==
    \/ initializeSession
    \/ HistoryLoaded
    \/ Type
    \/ ChipClick
    \/ handleKeyPress
    \/ ClickSend
    \/ SettleAny

SpecReplies == Init /\ [][NextReplies]_vars

LiveSpec == Spec /\ WF_vars(Settle) /\ WF_vars(HistoryLoaded)

----------------------------------------------------------------------------
(* Properties *)

IsPrefix(s, t) == Len(s) <= Len(t) /\ SubSeq(t, 1, Len(s)) = s

ClearConfirmed(op) == op.op = "handleClearChat" /\ op.confirmed
SendAccepted(op)   == op.op = "handleSend" /\ op.accepted

\* C1: in every step that is neither a confirmed clear-chat nor a reload of the
\* page, the message list before the step is a prefix of the list after it.
C1_AppendOnly ==
    [][ (~ClearConfirmed(lastOp') /\ lastOp'.op # "reload")
            => IsPrefix(messages, messages') ]_vars

\* C2: handleSend called with an empty or whitespace-only input, or with no
\* session id, leaves messages, input, loading, sessionId, the stored id and the
\* set of backend requests as they were.
C2_RejectedSendChangesNothing ==
    [][ (lastOp'.op = "handleSend" /\ (Trim(input) = <<>> \/ sessionId = <<>>))
            => UNCHANGED <<messages, input, loading, sessionId, localStorage, inflight>> ]_vars

\* handleSend has just run on a whitespace-only input with a session resolved
C2_Witness ==
    /\ lastOp.op = "handleSend"
    /\ ~lastOp.accepted
    /\ input = <<" ">>
    /\ sessionId # <<>>

\* C3: once "chatSessionId" is stored, no step other than a confirmed clear-chat
\* changes the stored value, and every mount resolves sessionId to it.
C3_SessionStable ==
    [][ (localStorage # <<>> /\ ~ClearConfirmed(lastOp'))
            => /\ localStorage' = localStorage
               /\ (lastOp'.op = "initializeSession" => sessionId' = localStorage) ]_vars

\* a later mount, after a send was served, has resolved the stored identifier
C3_Witness ==
    /\ lastOp.op = "initializeSession"
    /\ ~lastOp.created
    /\ store # <<>>
    /\ sessionId = localStorage

\* C4 as stated: a confirmed clear-chat always yields a session id different
\* from the previous one, an empty list and an empty input; a declined one
\* changes nothing.
C4_ClearAlwaysFresh ==
    [][ /\ ClearConfirmed(lastOp')
            => (sessionId' # sessionId /\ messages' = <<>> /\ input' = <<>>)
        /\ (lastOp'.op = "handleClearChat" /\ ~lastOp'.confirmed)
            => UNCHANGED <<messages, input, loading, sessionId, localStorage, inflight>> ]_vars

\* C4 as amended: a confirmed clear-chat empties the list and the input and puts
\* into sessionId and into localStorage the identifier made of the current time
\* and a random suffix (which is the previous one when both repeat); a declined
\* one changes nothing.
C4_ClearResets ==
    [][ /\ ClearConfirmed(lastOp')
            => /\ messages' = <<>>
               /\ input' = <<>>
               /\ sessionId' = <<lastOp'.t, lastOp'.r>>
               /\ localStorage' = sessionId'
               /\ (sessionId' = sessionId => sessionId = <<lastOp'.t, lastOp'.r>>)
        /\ (lastOp'.op = "handleClearChat" /\ ~lastOp'.confirmed)
            => UNCHANGED <<messages, input, loading, sessionId, localStorage, inflight>> ]_vars

\* a conversation with a request under way has been cleared and the identifier changed
C4_Witness ==
    /\ ClearConfirmed(lastOp)
    /\ lastOp.prev # <<>>
    /\ sessionId # lastOp.prev
    /\ messages = <<>>
    /\ inflight # <<>>

\* C5: an accepted send sets loading, and loading always returns to idle once
\* the backend call settles, whatever its outcome.
C5_LoadingReturnsToIdle ==
    /\ [](SendAccepted(lastOp) => loading)
    /\ [](lastOp.op = "settle" => ~loading)
    /\ (loading ~> ~loading)

\* the call of an accepted send has failed after an HTTP success and loading is idle
C5_Witness ==
    /\ lastOp.op = "settle"
    /\ lastOp.outcome.kind = "okThrow"
    /\ ~loading
    /\ messages[1].sender = "user"

\* C6: an accepted send appends one user message holding the raw input and
\* issues one request; the settling of a request appends one bot message (an
\* "Error: " text exactly when it failed), directly after the user message when
\* nothing came between, and issues no new request; no other step issues one;
\* after the settling the controls accept a send again.
C6_OneMessageOneRequestOneReply ==
    /\ [][ /\ SendAccepted(lastOp')
               => /\ messages' = Append(messages, [text |-> input, sender |-> "user",
                                                   chips |-> [has |-> FALSE, val |-> <<>>]])
                  /\ inflight' = Append(inflight, [message |-> input, session_id |-> sessionId])
           /\ lastOp'.op = "settle"
               => /\ Len(messages') = Len(messages) + 1
                  /\ IsPrefix(messages, messages')
                  /\ messages'[Len(messages')].sender = "bot"
                  /\ (lastOp'.outcome.kind # "ok"
                        <=> IsPrefix(ErrorPrefix, messages'[Len(messages')].text))
                  /\ Len(inflight') = Len(inflight) - 1
                  /\ IsPrefix(inflight', inflight)
           /\ (SendAccepted(lastOp) /\ lastOp'.op = "settle")
               => /\ messages[Len(messages)].sender = "user"
                  /\ messages[Len(messages)].text = lastOp'.req.message
           /\ ~(SendAccepted(lastOp') \/ lastOp'.op = "settle")
               => IsPrefix(inflight', inflight) ]_vars
    /\ [](lastOp.op = "settle" => (~loading /\ TextareaEnabled))

\* a send has been accepted right after a failed one got its error placeholder
C6_Witness ==
    /\ SendAccepted(lastOp)
    /\ Len(messages) = 3
    /\ messages[1].sender = "user"
    /\ IsPrefix(ErrorPrefix, messages[2].text)
    /\ messages[3].text = <<" ", "a">>
    /\ Len(inflight) = 1

LastMessage == messages[Len(messages)]

\* C7 as stated: on HTTP success the text is body.reply if present, else
\* body.message if present, else the stringified body, and the chips are
\* body.chips if present, else empty, also for a reply or message that is "".
C7_FallbackWhenAbsent ==
    (lastOp.op = "settle" /\ lastOp.outcome.kind = "ok")
        => LET b == lastOp.outcome.body
           IN /\ LastMessage.text = (IF b.reply.has THEN b.reply.val
                                     ELSE IF b.message.has THEN b.message.val
                                     ELSE Stringify(b))
              /\ LastMessage.chips = [has |-> TRUE,
                                      val |-> IF b.chips.has THEN b.chips.val ELSE <<>>]

\* C7 as amended: on HTTP success with an object body the text is body.reply if
\* it is present and not "", else body.message if it is present and not "", else
\* the stringified body; the chips are body.chips if present, else empty.
C7_FallbackWhenEmpty ==
    (lastOp.op = "settle" /\ lastOp.outcome.kind = "ok")
        => LET b == lastOp.outcome.body
           IN /\ LastMessage.text = (IF b.reply.has /\ b.reply.val # <<>> THEN b.reply.val
                                     ELSE IF b.message.has /\ b.message.val # <<>>
                                          THEN b.message.val
                                     ELSE Stringify(b))
              /\ LastMessage.chips = [has |-> TRUE,
                                      val |-> IF b.chips.has THEN b.chips.val ELSE <<>>]
              /\ LastMessage.sender = "bot"

\* the body {reply: "", message: "m"} has been shown as "m"
C7_Witness ==
    /\ lastOp.op = "settle"
    /\ lastOp.outcome.kind = "ok"
    /\ lastOp.outcome.body.reply = [has |-> TRUE, val |-> <<>>]
    /\ lastOp.outcome.body.message = [has |-> TRUE, val |-> <<"m">>]
    /\ LastMessage.text = <<"m">>

\* C8: a non-success status yields "Error: " and the status text, a thrown Error
\* "Error: " and its message, any other thrown value "Error: Unknown error"; in
\* each case handleSend completes: the message is a bot message without chips
\* and loading is idle.
C8_ErrorPlaceholder ==
    (lastOp.op = "settle" /\ lastOp.outcome.kind # "ok")
        => LET o == lastOp.outcome
           IN /\ o.kind = "notOk" => LastMessage.text = ErrorPrefix \o o.statusText
              /\ o.kind \in {"okThrow", "throwError"} => LastMessage.text = ErrorPrefix \o o.err
              /\ o.kind = "throwOther" => LastMessage.text = ErrorPrefix \o UnknownError
              /\ LastMessage.sender = "bot"
              /\ ~LastMessage.chips.has
              /\ ~loading

\* a non-success status with status text "N" has been shown as "Error: N"
C8_Witness ==
    /\ lastOp.op = "settle"
    /\ lastOp.outcome.kind = "notOk"
    /\ lastOp.outcome.statusText = <<"N">>
    /\ LastMessage.text = <<"E", "r", "r", "o", "r", ":", " ", "N">>

\* C9: at most one backend request is pending in every reachable state, and
\* loading is set exactly while one is.
C9_AtMostOneInFlight ==
    /\ Len(inflight) <= 1
    /\ (loading <=> inflight # <<>>)

\* a chip was clicked during the wait: the input is sendable, one request is pending
C9_Witness ==
    /\ lastOp.op = "chip"
    /\ loading
    /\ Trim(input) # <<>>
    /\ Len(inflight) = 1

\* C10: a confirmed clear-chat leaves the pending requests and loading as they
\* are, and a request of another session that settles appends its bot message
\* to the current list and leaves the session as it is.
C10_OrphanReplyAppended ==
    [][ /\ ClearConfirmed(lastOp') => (inflight' = inflight /\ loading' = loading)
        /\ (lastOp'.op = "settle" /\ lastOp'.req.session_id # sessionId)
            => /\ Len(messages') = Len(messages) + 1
               /\ IsPrefix(messages, messages')
               /\ messages'[Len(messages')].sender = "bot"
               /\ sessionId' = sessionId
               /\ localStorage' = localStorage ]_vars

\* the reply to a request of the previous session is the only message of the new one
C10_Witness ==
    /\ lastOp.op = "settle"
    /\ lastOp.req.session_id # sessionId
    /\ Len(messages) = 1
    /\ messages[1].sender = "bot"
    /\ sessionId = localStorage

\* the rows of session sid in rows, by position: the k-th of them
RowsOf(rows, sid) == {k \in 1..Len(rows) : rows[k].session_id = sid}
NthRowOf(rows, sid, i) ==
    rows[CHOOSE k \in RowsOf(rows, sid) :
            Cardinality({m \in RowsOf(rows, sid) : m <= k}) = i]

\* C11: when the history query returns rows without error, the message list
\* becomes their element-wise mapping: as many messages as the session has rows,
\* in the order of the table, text = content, sender "user" for the role "user"
\* and "bot" for every other role, no chips; when it fails, throws or returns
\* nothing, the list is left as it was.
C11_HistoryMapped ==
    [][ lastOp'.op = "historyLoaded"
            => IF lastOp'.result = "data" /\ RowsOf(store, lastOp'.session_id) # {}
               THEN /\ Len(messages') = Cardinality(RowsOf(store, lastOp'.session_id))
                    /\ \A i \in 1..Len(messages') :
                         LET row == NthRowOf(store, lastOp'.session_id, i)
                         IN /\ messages'[i].text = row.content
                            /\ messages'[i].sender =
                                  (IF row.role = "user" THEN "user" ELSE "bot")
                            /\ ~messages'[i].chips.has
               ELSE messages' = messages ]_vars

\* two rows, of the roles "assistant" and "user", have been loaded in that order
C11_Witness ==
    /\ lastOp.op = "historyLoaded"
    /\ lastOp.result = "data"
    /\ Len(lastOp.data) = 2
    /\ lastOp.data[1].role = "assistant"
    /\ lastOp.data[2].role = "user"
    /\ Len(messages) = 2
    /\ messages[1].sender = "bot"
    /\ messages[2].sender = "user"
    /\ messages[1].text # messages[2].text

\* C12: getHistory and saveMessage never throw; each returns null when the
\* store reports an error or the call raises an exception; otherwise getHistory
\* returns the rows of that session in the order of the table and saveMessage
\* returns the data of the insert response.
C12_GatewayNeverThrows ==
    /\ lastOp.op = "getHistory"
        => /\ ~lastOp.result.threw
           /\ lastOp.outcome \in {"error", "throw"} => lastOp.result.isNull
           /\ lastOp.outcome = "data"
                => /\ ~lastOp.result.isNull
                   /\ Len(lastOp.result.rows) = Cardinality(RowsOf(store, lastOp.session_id))
                   /\ \A i \in 1..Len(lastOp.result.rows) :
                        lastOp.result.rows[i] = NthRowOf(store, lastOp.session_id, i)
    /\ lastOp.op = "saveMessage"
        => /\ ~lastOp.result.threw
           /\ lastOp.outcome \in {"error", "throw"} => lastOp.result.isNull
           /\ lastOp.outcome = "ok"
                => /\ lastOp.result.isNull = ~lastOp.data.has
                   /\ lastOp.result.rows = lastOp.data.val

\* getHistory has returned the two differing rows of a session, in table order
C12_Witness ==
    /\ lastOp.op = "getHistory"
    /\ lastOp.outcome = "data"
    /\ Len(store) = 2
    /\ Len(lastOp.result.rows) = 2
    /\ lastOp.result.rows[1] = store[1]
    /\ lastOp.result.rows[2] = store[2]
    /\ store[1] # store[2]

\* C13: no step of the view (mount, typing, send, reply arrival, clear-chat,
\* reload) changes the rows of chat_messages, and the view starts a read of the
\* table only in the mount effect, which runs once per mount.
C13_ViewNeverWritesStore ==
    [][ /\ lastOp'.op # "insertRow" => store' = store
        /\ (histPending'.active /\ histPending' # histPending)
              => (lastOp'.op = "initializeSession" /\ ~effectRan /\ effectRan') ]_vars

\* a session that has a stored row has been cleared and its row is still there
C13_Witness ==
    /\ ClearConfirmed(lastOp)
    /\ sessionId # lastOp.prev
    /\ store # <<>>
    /\ store[1].session_id = lastOp.prev

\* whether the segments, with a pair of "*" or "**" put back around each
\* emphasized one, spell the text s
RECURSIVE Reassembles(_, _)
Reassembles(segs, s) ==
    IF segs = <<>> THEN s = <<>>
    ELSE LET seg == Head(segs)
         IN IF seg.strong
            THEN \E d \in {<<"*">>, <<"*", "*">>} :
                    /\ IsPrefix(d \o seg.text \o d, s)
                    /\ Reassembles(Tail(segs),
                                   SubSeq(s, 2 * Len(d) + Len(seg.text) + 1, Len(s)))
            ELSE /\ IsPrefix(seg.text, s)
                 /\ Reassembles(Tail(segs), SubSeq(s, Len(seg.text) + 1, Len(s)))

\* a run *...* within one line
HasDelimitedRun(s) ==
    \E i, j \in 1..Len(s) :
        /\ i < j /\ s[i] = "*" /\ s[j] = "*"
        /\ \A k \in (i + 1)..(j - 1) : s[k] # "\n"

\* C14: the segments of formatText are the text with each emphasized run
\* stripped of one matched pair of delimiters and nothing else lost; no plain
\* segment holds a delimited run; a text without an asterisk comes back as one
\* plain segment equal to it.
C14_FormatterLosesOnlyDelimiters ==
    lastOp.op = "render"
        => /\ Reassembles(lastOp.segments, lastOp.text)
           /\ \A i \in 1..Len(lastOp.segments) :
                ~lastOp.segments[i].strong => ~HasDelimitedRun(lastOp.segments[i].text)
           /\ (\A k \in 1..Len(lastOp.text) : lastOp.text[k] # "*")
                => lastOp.segments = << [strong |-> FALSE, text |-> lastOp.text] >>

\* C15: when the history load fills the message list, the rows are those of
\* the session that is current at that moment.
C15_LoadFillsCurrentSessionOnly ==
    (lastOp.op = "historyLoaded" /\ lastOp.result = "data" /\ lastOp.data # <<>>)
        => /\ lastOp.session_id = sessionId
           /\ \A i \in 1..Len(lastOp.data) : lastOp.data[i].session_id = sessionId

\* C16: once the mount effect has run, sessionId is not empty and equals the
\* value stored under "chatSessionId"; the request of an accepted send carries
\* the message and the sessionId of the moment of the send.
C16_SessionIdInSync ==
    /\ [](effectRan => (sessionId # <<>> /\ sessionId = localStorage))
    /\ [][ SendAccepted(lastOp')
             => /\ Len(inflight') = Len(inflight) + 1
                /\ inflight'[Len(inflight')].session_id = sessionId
                /\ sessionId' = sessionId ]_vars
    /\ [](\A i \in 1..Len(inflight) : inflight[i].session_id # <<>>)

\* a send has been accepted in the session that followed a cleared one
C16_Witness ==
    /\ SendAccepted(lastOp)
    /\ Len(inflight) = 1
    /\ inflight[1].session_id = sessionId
    /\ sessionId = localStorage
    /\ store # <<>>
    /\ store[1].session_id # sessionId

====
